---- MODULE Spec2Model ----
(***************************************************************************)
(* Model of the console prompt library (prompt/__init__.py): the           *)
(* Requirement hierarchy, Chain composition, the ValidationError taxonomy  *)
(* and the read-validate-retry loop of Prompt._prompt.                     *)
(*                                                                         *)
(* Python strings are TLA+ strings; Python values are tagged records       *)
(* (int, str, bool, list, None) so that a comparison of values of          *)
(* different types is well defined.                                        *)
(***************************************************************************)
EXTENDS Integers, Sequences, FiniteSets, TLC

(***************************************************************************)
(* Bounds of the model.                                                    *)
(***************************************************************************)
\* lines one prompting call may read before the reader stops supplying any
MaxReads == 3
\* lines one prompting call may read when the calls are taken as a sequence
MaxReuseReads == 2
\* lines one prompting call may read when its progress is followed
MaxLiveReads == 2
\* calls of meet made on one requirement object
MaxCalls == 2

(***************************************************************************)
(* Python values.                                                          *)
(***************************************************************************)
IntV(n) == [t |-> "int", i |-> n, s |-> "", l |-> <<>>]
StrV(x) == [t |-> "str", i |-> 0, s |-> x, l |-> <<>>]
BoolV(b) == [t |-> "bool", i |-> IF b THEN 1 ELSE 0, s |-> "", l |-> <<>>]
ListV(xs) == [t |-> "list", i |-> 0, s |-> "", l |-> xs]
NoneV == [t |-> "None", i |-> 0, s |-> "", l |-> <<>>]

\* truth value of a Python value (bool(v))
Truthy(v) ==
    CASE v.t = "str" -> v.s # ""
      [] v.t \in {"int", "bool"} -> v.i # 0
      [] v.t = "list" -> Len(v.l) > 0
      [] OTHER -> FALSE

(***************************************************************************)
(* String primitives of the Python runtime used by the library.            *)
(***************************************************************************)
Char(x, k) == SubSeq(x, k, k)

UpperChars == "ABCDEFGHIJKLMNOPQRSTUVWXYZ"
LowerChars == "abcdefghijklmnopqrstuvwxyz"
DigitChars == "0123456789"
Whitespace == {" ", "\t"}

\* str.lower() on one character
LowerChar(c) ==
    IF \E k \in 1..Len(UpperChars) : Char(UpperChars, k) = c
    THEN Char(LowerChars, CHOOSE k \in 1..Len(UpperChars) : Char(UpperChars, k) = c)
    ELSE c

RECURSIVE Lower(_)
\* str.lower()
Lower(x) == IF x = "" THEN "" ELSE LowerChar(Char(x, 1)) \o Lower(SubSeq(x, 2, Len(x)))

\* str.strip(): drops leading and trailing whitespace
Strip(x) ==
    LET keep == {k \in 1..Len(x) : Char(x, k) \notin Whitespace}
    IN  IF keep = {} THEN ""
        ELSE SubSeq(x, CHOOSE a \in keep : \A b \in keep : a <= b,
                       CHOOSE a \in keep : \A b \in keep : a >= b)

\* Python's `sub in x` on strings
Contains(x, sub) ==
    \E k \in 1..(Len(x) - Len(sub) + 1) : SubSeq(x, k, k + Len(sub) - 1) = sub

IsDigit(c) == \E k \in 1..Len(DigitChars) : Char(DigitChars, k) = c
DigitVal(c) == (CHOOSE k \in 1..Len(DigitChars) : Char(DigitChars, k) = c) - 1

RECURSIVE DigitsValue(_, _)
\* value of a digit string, underscores skipped, acc is the value so far
DigitsValue(x, acc) ==
    IF x = "" THEN acc
    ELSE IF Char(x, 1) = "_" THEN DigitsValue(SubSeq(x, 2, Len(x)), acc)
    ELSE DigitsValue(SubSeq(x, 2, Len(x)), 10 * acc + DigitVal(Char(x, 1)))

\* digits, with single underscores allowed only between two digits
DigitsOK(x) ==
    /\ x # ""
    /\ \A k \in 1..Len(x) :
          \/ IsDigit(Char(x, k))
          \/ /\ Char(x, k) = "_"
             /\ 1 < k /\ k < Len(x)
             /\ IsDigit(Char(x, k - 1)) /\ IsDigit(Char(x, k + 1))

\* int(x) for a string: [ok |-> FALSE] stands for ValueError
ParseInt(x) ==
    LET y == Strip(x)
        signed == y # "" /\ Char(y, 1) \in {"+", "-"}
        body == IF signed THEN SubSeq(y, 2, Len(y)) ELSE y
    IN  IF DigitsOK(body)
        THEN [ok |-> TRUE,
              val |-> IF signed /\ Char(y, 1) = "-"
                      THEN 0 - DigitsValue(body, 0) ELSE DigitsValue(body, 0)]
        ELSE [ok |-> FALSE, val |-> 0]

RECURSIVE NatToStr(_)
NatToStr(n) ==
    IF n < 10 THEN Char(DigitChars, n + 1)
    ELSE NatToStr(n \div 10) \o Char(DigitChars, (n % 10) + 1)

\* f'{n}' for an int
IntToStr(n) == IF n < 0 THEN "-" \o NatToStr(0 - n) ELSE NatToStr(n)

RECURSIVE Join(_, _)
\* sep.join(xs) for a sequence of strings
Join(sep, xs) ==
    IF Len(xs) = 0 THEN ""
    ELSE IF Len(xs) = 1 THEN xs[1]
    ELSE xs[1] \o sep \o Join(sep, Tail(xs))

RECURSIVE ReprItems(_)
ReprItems(xs) ==
    IF Len(xs) = 0 THEN ""
    ELSE IF Len(xs) = 1 THEN "'" \o xs[1].s \o "'"
    ELSE "'" \o xs[1].s \o "', " \o ReprItems(Tail(xs))

\* f'{v}' for a Python value
Format(v) ==
    CASE v.t = "str" -> v.s
      [] v.t = "int" -> IntToStr(v.i)
      [] v.t = "bool" -> IF v.i = 1 THEN "True" ELSE "False"
      [] v.t = "list" -> "[" \o ReprItems(v.l) \o "]"
      [] OTHER -> "None"

(***************************************************************************)
(* Exceptions: the ValidationError taxonomy and the errors of the runtime. *)
(***************************************************************************)
NoError == [kind |-> "None", value |-> "", min |-> 0, max |-> 0, options |-> NoneV]
Empty == [kind |-> "Empty", value |-> "", min |-> 0, max |-> 0, options |-> NoneV]
NotANumber(value) ==
    [kind |-> "NotANumber", value |-> value, min |-> 0, max |-> 0, options |-> NoneV]
NotInRange(min, max) ==
    [kind |-> "NotInRange", value |-> "", min |-> min, max |-> max, options |-> NoneV]
NotAnOption(options) ==
    [kind |-> "NotAnOption", value |-> "", min |-> 0, max |-> 0, options |-> options]
\* raised by a failed assert statement
AssertionError ==
    [kind |-> "AssertionError", value |-> "", min |-> 0, max |-> 0, options |-> NoneV]
\* raised by the runtime when a module has no attribute of the name asked for
ImportError ==
    [kind |-> "ImportError", value |-> "", min |-> 0, max |-> 0, options |-> NoneV]
\* raised by the runtime when an operand has the wrong type
TypeError ==
    [kind |-> "TypeError", value |-> "", min |-> 0, max |-> 0, options |-> NoneV]

\* ValidationError with NotInRange derived from Exception instead
ValidationErrorWithoutNotInRange == {"Empty", "NotANumber", "NotAnOption"}

\* the subclasses of ValidationError: what `except ValidationError` catches
ValidationError == {"Empty", "NotANumber", "NotInRange", "NotAnOption"}

\* __str__ of the exceptions
ErrorStr(e) ==
    CASE e.kind = "Empty" -> "Empty"
      [] e.kind = "NotANumber" -> "'" \o e.value \o "' is not a number"
      [] e.kind = "NotInRange" ->
            "Please provide a value between " \o IntToStr(e.min)
                \o " and " \o IntToStr(e.max)
      [] e.kind = "NotAnOption" -> "Please select one of " \o Format(e.options)
      [] OTHER -> ""

(***************************************************************************)
(* Requirements: immutable configuration records.                          *)
(***************************************************************************)
Req(cls, min, max, keys, vals, options, requirements) ==
    [cls |-> cls, min |-> min, max |-> max, keys |-> keys, vals |-> vals,
     options |-> options, requirements |-> requirements]

Requirement == Req("Requirement", 0, 0, <<>>, <<>>, <<>>, <<>>)
NotEmpty == Req("NotEmpty", 0, 0, <<>>, <<>>, <<>>, <<>>)
Number == Req("Number", 0, 0, <<>>, <<>>, <<>>, <<>>)
Between(min, max) == Req("Between", min, max, <<>>, <<>>, <<>>, <<>>)
\* options_dict as its keys and its values, in insertion order
Choice(keys, vals) == Req("Choice", 0, 0, keys, vals, <<>>, <<>>)
Menu(options) == Req("Menu", 0, 0, <<>>, <<>>, options, <<>>)
Chain(requirements) == Req("Chain", 0, 0, <<>>, <<>>, <<>>, requirements)

\* result of a call of meet: the value returned or the exception raised,
\* and the classes whose meet ran, in order
Returned(value, ran) == [ok |-> TRUE, value |-> value, err |-> NoError, ran |-> ran]
Raised(err, ran) == [ok |-> FALSE, value |-> NoneV, err |-> err, ran |-> ran]

\* Requirement.meet
RequirementMeet(value) == Returned(value, <<"Requirement">>)

\* NotEmpty.meet
NotEmptyMeet(string) ==
    IF ~Truthy(string) THEN Raised(Empty, <<"NotEmpty">>)
    ELSE Returned(string, <<"NotEmpty">>)

\* Number.meet
NumberMeet(string) ==
    CASE string.t = "str" ->
            IF ParseInt(string.s).ok
            THEN Returned(IntV(ParseInt(string.s).val), <<"Number">>)
            ELSE Raised(NotANumber(string.s), <<"Number">>)
      [] string.t \in {"int", "bool"} -> Returned(IntV(string.i), <<"Number">>)
      [] OTHER -> Raised(TypeError, <<"Number">>)

\* BetweenMeet on the open interval
BetweenMeetOpen(self, value) ==
    IF value.t \notin {"int", "bool"} THEN Raised(TypeError, <<"Between">>)
    ELSE IF ~(self.min < value.i /\ value.i < self.max)
         THEN Raised(NotInRange(self.min, self.max), <<"Between">>)
         ELSE Returned(value, <<"Between">>)

\* Between.meet
BetweenMeet(self, value) ==
    IF value.t \notin {"int", "bool"} THEN Raised(TypeError, <<"Between">>)
    ELSE IF ~(self.min <= value.i /\ value.i <= self.max)
         THEN Raised(NotInRange(self.min, self.max), <<"Between">>)
         ELSE Returned(value, <<"Between">>)

\* ChoiceHint joined with ', ' as Chain.hint is
ChoiceHintCommas(self) == Join(", ", self.keys)

\* Choice.hint
ChoiceHint(self) == Join("/", self.keys)

\* Choice.meet
ChoiceMeet(self, value) ==
    IF value.t = "list" THEN Raised(TypeError, <<"Choice">>)
    ELSE IF ~(value.t = "str" /\ \E k \in 1..Len(self.keys) : self.keys[k] = value.s)
         THEN Raised(NotAnOption(StrV(ChoiceHint(self))), <<"Choice">>)
         ELSE Returned(self.vals[CHOOSE k \in 1..Len(self.keys) : self.keys[k] = value.s],
                       <<"Choice">>)

\* MenuMeet checking the range itself and raising NotInRange
MenuMeetValidating(self, value) ==
    IF value.t \notin {"int", "bool"} THEN Raised(TypeError, <<"Menu">>)
    ELSE IF ~(1 <= value.i /\ value.i <= Len(self.options))
         THEN Raised(NotInRange(1, Len(self.options)), <<"Menu">>)
         ELSE Returned(self.options[value.i], <<"Menu">>)

\* Menu.meet
MenuMeet(self, value) ==
    IF value.t \notin {"int", "bool"} THEN Raised(TypeError, <<"Menu">>)
    ELSE IF ~(1 <= value.i /\ value.i <= Len(self.options))
         THEN Raised(AssertionError, <<"Menu">>)
         ELSE Returned(self.options[value.i], <<"Menu">>)

RECURSIVE Meet(_, _)
RECURSIVE ChainMeet(_, _, _, _)
RECURSIVE ChainMeetValueNotFed(_, _, _, _)

\* ChainMeet without the assignment to value in the loop body
ChainMeetValueNotFed(self, k, value, ran) ==
    IF k > Len(self.requirements) THEN Returned(value, ran)
    ELSE LET r == Meet(self.requirements[k], value)
         IN  IF r.ok THEN ChainMeetValueNotFed(self, k + 1, value, ran \o r.ran)
             ELSE Raised(r.err, ran \o r.ran)

\* Chain.meet: the for loop from requirement k on, value is the loop variable
ChainMeet(self, k, value, ran) ==
    IF k > Len(self.requirements) THEN Returned(value, ran)
    ELSE LET r == Meet(self.requirements[k], value)
         IN  IF r.ok THEN ChainMeet(self, k + 1, r.value, ran \o r.ran)
             ELSE Raised(r.err, ran \o r.ran)

\* requirement.meet(value), dispatched on the class of the requirement
Meet(self, value) ==
    CASE self.cls = "NotEmpty" -> NotEmptyMeet(value)
      [] self.cls = "Number" -> NumberMeet(value)
      [] self.cls = "Between" -> BetweenMeet(self, value)
      [] self.cls = "Choice" -> ChoiceMeet(self, value)
      [] self.cls = "Menu" -> MenuMeet(self, value)
      [] self.cls = "Chain" -> ChainMeet(self, 1, value, <<>>)
      [] OTHER -> RequirementMeet(value)

\* Between.hint
BetweenHint(self) ==
    IF self.min = self.max THEN IntToStr(self.min)
    ELSE IntToStr(self.min) \o " - " \o IntToStr(self.max)

RECURSIVE Hint(_)
RECURSIVE NonEmptyHints(_, _)

RECURSIVE NonEmptyHintsUnfiltered(_, _)
\* NonEmptyHints without the `if requirement.hint()` filter
NonEmptyHintsUnfiltered(self, k) ==
    IF k > Len(self.requirements) THEN <<>>
    ELSE <<Hint(self.requirements[k])>> \o NonEmptyHintsUnfiltered(self, k + 1)

\* the list comprehension of Chain.hint, from requirement k on
NonEmptyHints(self, k) ==
    IF k > Len(self.requirements) THEN <<>>
    ELSE IF Hint(self.requirements[k]) # ""
         THEN <<Hint(self.requirements[k])>> \o NonEmptyHints(self, k + 1)
         ELSE NonEmptyHints(self, k + 1)

\* requirement.hint(), dispatched on the class of the requirement
Hint(self) ==
    CASE self.cls = "Between" -> BetweenHint(self)
      [] self.cls = "Choice" -> ChoiceHint(self)
      [] self.cls = "Chain" -> Join(", ", NonEmptyHints(self, 1))
      [] OTHER -> ""

RECURSIVE MenuLinesFromZero(_, _)
\* MenuLines with enumerate left at its default start of 0
MenuLinesFromZero(self, k) ==
    IF k > Len(self.options) THEN <<>>
    ELSE <<IntToStr(k - 1) \o ". " \o Format(self.options[k])>>
            \o MenuLinesFromZero(self, k + 1)

RECURSIVE MenuLines(_, _)
\* the list comprehension of Menu.__str__, from option k on
MenuLines(self, k) ==
    IF k > Len(self.options) THEN <<>>
    ELSE <<IntToStr(k) \o ". " \o Format(self.options[k])>> \o MenuLines(self, k + 1)

RECURSIVE Str(_)
RECURSIVE NonEmptyStrs(_, _)

\* the list comprehension of Chain.__str__, from requirement k on
NonEmptyStrs(self, k) ==
    IF k > Len(self.requirements) THEN <<>>
    ELSE IF Str(self.requirements[k]) # ""
         THEN <<Str(self.requirements[k])>> \o NonEmptyStrs(self, k + 1)
         ELSE NonEmptyStrs(self, k + 1)

\* str(requirement), dispatched on the class of the requirement
Str(self) ==
    CASE self.cls = "Menu" -> Join("\n", MenuLines(self, 1))
      [] self.cls = "Chain" -> Join("\n", NonEmptyStrs(self, 1))
      [] OTHER -> ""

(***************************************************************************)
(* Inputs of the model.                                                    *)
(***************************************************************************)
\* the lines the reader may supply
Lines ==
    {"", "  ", "abc", "0", "1", "2", " 3 ", "5", "-1", "quit", "ExIt now",
     "Marquita", "yes", "maybe"}

\* the lines the reader may supply when the progress of a call is followed
LiveLines == {"", "abc", "1", "quit"}

\* the arguments of between
BetweenBounds == {1, 3}

\* the keyword arguments of choose
ChooseOptions ==
    {[keys |-> <<"yes", "no">>, vals |-> <<BoolV(TRUE), BoolV(FALSE)>>],
     [keys |-> <<"abc">>, vals |-> <<IntV(7)>>],
     [keys |-> <<>>, vals |-> <<>>]}

\* the arguments of menu
MenuOptions ==
    {<<>>, <<StrV("x")>>, <<StrV("a"), StrV("b"), StrV("c")>>, <<IntV(5), IntV(7)>>}

\* requirements handed to _prompt directly
PromptRequirements ==
    {Requirement,
     Chain(<<>>),
     Chain(<<Number, Menu(<<StrV("a"), StrV("b"), StrV("c")>>)>>),
     Chain(<<Number, Menu(<<>>)>>),
     Chain(<<NotEmpty, Number, Between(0, 1)>>),
     Chain(<<Between(1, 3)>>)}

(***************************************************************************)
(* State.                                                                  *)
(***************************************************************************)
VARIABLES
    prev,         \* how the call before this one on the same Prompt ended
    self,         \* the Prompt: _character and EXIT
    pc,           \* position of the running call in _prompt
    op,           \* the public operation called
    requirement,  \* the requirement handed to _prompt
    input_,       \* the local variable input_ of _prompt
    io,           \* the calls of the reader and the writer made by the call
    meets,        \* the arguments of requirement.meet in the call
    last,         \* the result of the last requirement.meet of the call
    outcome,      \* how the call ended
    call          \* a direct call of a method of a requirement

vars == <<prev, self, pc, op, requirement, input_, io, meets, last, outcome, call>>

NoResult == [ok |-> FALSE, value |-> NoneV, err |-> NoError, ran |-> <<>>]
NoOutcome == [kind |-> "none", value |-> NoneV, err |-> NoError]
NoCall == [method |-> "none", self |-> Requirement, value |-> NoneV,
           result |-> NoResult, text |-> "", n |-> 0]

\* Prompt.__init__ with its defaults, and the class attribute EXIT
PromptInit == [character |-> "> ", EXIT |-> <<"exit", "quit">>]

\* a new Prompt, with p for the call before its first one
Start(p) ==
    /\ prev = p
    /\ self = PromptInit
    /\ pc = "idle"
    /\ op = "none"
    /\ requirement = Requirement
    /\ input_ = ""
    /\ io = <<>>
    /\ meets = <<>>
    /\ last = NoResult
    /\ outcome = NoOutcome
    /\ call = NoCall

\* the calls on the Prompt are taken one by one, each on its own
Init == Start("untracked")

\* the calls on the Prompt are taken as a sequence: prev records the last one
InitReuse == Start("none")

\* the calls on the Prompt are taken one by one and followed to their end
InitLive == Start("live")

\* self._print(text, end=end)
Write(src, text, end) == [src |-> src, text |-> text, end |-> end, line |-> ""]
\* self._input(text), which returned line
Read(text, line) == [src |-> "input", text |-> text, end |-> "", line |-> line]

IsRead(e) == e.src = "input"
IsWrite(e) == e.src # "input"
IsError(e) == e.src = "error"
\* the lines read, the writes, and the validation messages of the call
reads == SelectSeq(io, IsRead)
out == SelectSeq(io, IsWrite)
errors == SelectSeq(io, IsError)

(***************************************************************************)
(* The public operations: each builds its requirement and enters _prompt.  *)
(***************************************************************************)
\* no call is running on the Prompt
Free == pc \in {"idle", "done", "exit", "error"}

\* entry of _prompt(requirement)
Enter(name, r) ==
    /\ pc' = "print_requirement"
    /\ op' = name
    /\ requirement' = r
    /\ input_' = ""
    /\ io' = <<>>
    /\ meets' = <<>>
    /\ last' = NoResult
    /\ outcome' = NoOutcome
    /\ prev' = IF prev \in {"untracked", "live"} THEN prev ELSE outcome.kind
    /\ UNCHANGED <<self, call>>

\* Prompt.between
between ==
    /\ Free
    /\ \E min \in BetweenBounds, max \in BetweenBounds :
          Enter("between", Chain(<<Number, Between(min, max)>>))

\* Prompt.choose
choose ==
    /\ Free
    /\ \E options \in ChooseOptions :
          Enter("choose", Choice(options.keys, options.vals))

\* menu with the range check starting at 0
menuBetweenFromZero ==
    /\ Free
    /\ \E options \in MenuOptions :
          Enter("menu", Chain(<<Number, Between(0, Len(options)), Menu(options)>>))

\* Prompt.menu
menu ==
    /\ Free
    /\ \E options \in MenuOptions :
          Enter("menu", Chain(<<Number, Between(1, Len(options)), Menu(options)>>))

\* Prompt.name
name ==
    /\ Free
    /\ Enter("name", NotEmpty)

\* Prompt.number
number ==
    /\ Free
    /\ Enter("number", Number)

\* Prompt._prompt called with a requirement of the caller's own
prompt ==
    /\ Free
    /\ \E r \in PromptRequirements : Enter("_prompt", r)

(***************************************************************************)
(* The steps of Prompt._prompt.                                            *)
(***************************************************************************)
\* Prompt._print_requirement, called once on entry
PrintRequirement ==
    /\ pc = "print_requirement"
    /\ io' = IF Str(requirement) = "" THEN io
             ELSE Append(io, Write("requirement", Str(requirement), "\n"))
    /\ pc' = "print_hint"
    /\ UNCHANGED <<prev, self, op, requirement, input_, meets, last, outcome, call>>

\* PrintHint writing the hint before the first read only
PrintHintOnce ==
    /\ pc = "print_hint"
    /\ io' = IF Hint(requirement) = "" \/ Len(reads) > 0 THEN io
             ELSE Append(io, Write("hint", "(" \o Hint(requirement) \o ")", " "))
    /\ pc' = "input"
    /\ UNCHANGED <<prev, self, op, requirement, input_, meets, last, outcome, call>>

\* Prompt._print_hint, first statement of the loop body
PrintHint ==
    /\ pc = "print_hint"
    /\ io' = IF Hint(requirement) = "" THEN io
             ELSE Append(io, Write("hint", "(" \o Hint(requirement) \o ")", " "))
    /\ pc' = "input"
    /\ UNCHANGED <<prev, self, op, requirement, input_, meets, last, outcome, call>>

\* the bound on the lines of one call
ReadLimit ==
    CASE prev = "untracked" -> MaxReads
      [] prev = "live" -> MaxLiveReads
      [] OTHER -> MaxReuseReads

\* the lines the reader draws from
ReaderLines == IF prev = "live" THEN LiveLines ELSE Lines

\* Input without the call of strip()
InputUnstripped ==
    /\ pc = "input"
    /\ Len(reads) < ReadLimit
    /\ \E line \in ReaderLines :
          /\ io' = Append(io, Read(self.character, line))
          /\ input_' = line
    /\ pc' = "test_exit"
    /\ UNCHANGED <<prev, self, op, requirement, meets, last, outcome, call>>

\* input_ = self._input(self._character); input_ = input_.strip()
Input ==
    /\ pc = "input"
    /\ Len(reads) < ReadLimit
    /\ \E line \in ReaderLines :
          /\ io' = Append(io, Read(self.character, line))
          /\ input_' = Strip(line)
    /\ pc' = "test_exit"
    /\ UNCHANGED <<prev, self, op, requirement, meets, last, outcome, call>>

\* ShouldExit without the call of lower()
ShouldExitCaseSensitive(string) ==
    \E k \in 1..Len(self.EXIT) : Contains(string, self.EXIT[k])

\* the condition of Prompt._test_exit
ShouldExit(string) ==
    \E k \in 1..Len(self.EXIT) : Contains(Lower(string), self.EXIT[k])

\* TestExit with Exit caught by the loop like a ValidationError
TestExitSwallowed ==
    /\ pc = "test_exit"
    /\ IF ShouldExit(input_)
       THEN /\ pc' = "print_hint"
            /\ io' = Append(io, Write("error", "", "\n"))
       ELSE /\ pc' = "meet"
            /\ UNCHANGED io
    /\ UNCHANGED <<prev, self, op, requirement, input_, meets, last, outcome, call>>

\* TestExit removing the exit keywords from the Prompt once one was used
TestExitConsumesKeywords ==
    /\ pc = "test_exit"
    /\ IF ShouldExit(input_)
       THEN /\ pc' = "exit"
            /\ outcome' = [kind |-> "Exit", value |-> NoneV, err |-> NoError]
            /\ self' = [self EXCEPT !.EXIT = <<>>]
       ELSE /\ pc' = "meet"
            /\ UNCHANGED <<self, outcome>>
    /\ UNCHANGED <<prev, op, requirement, input_, io, meets, last, call>>

\* Prompt._test_exit: raises Exit, which nothing in _prompt catches
TestExit ==
    /\ pc = "test_exit"
    /\ IF ShouldExit(input_)
       THEN /\ pc' = "exit"
            /\ outcome' = [kind |-> "Exit", value |-> NoneV, err |-> NoError]
       ELSE /\ pc' = "meet"
            /\ UNCHANGED outcome
    /\ UNCHANGED <<prev, self, op, requirement, input_, io, meets, last, call>>

\* TryMeet returning the line read instead of the value meet returned
TryMeetReturnsInput ==
    /\ pc = "meet"
    /\ LET r == Meet(requirement, StrV(input_))
       IN  /\ meets' = Append(meets, input_)
           /\ last' = r
           /\ IF r.ok
              THEN /\ pc' = "done"
                   /\ outcome' = [kind |-> "return", value |-> StrV(input_), err |-> NoError]
                   /\ UNCHANGED io
              ELSE IF r.err.kind \in ValidationError
              THEN /\ pc' = "print_hint"
                   /\ io' = Append(io, Write("error", ErrorStr(r.err), "\n"))
                   /\ UNCHANGED outcome
              ELSE /\ pc' = "error"
                   /\ outcome' = [kind |-> "raise", value |-> NoneV, err |-> r.err]
                   /\ UNCHANGED io
    /\ UNCHANGED <<prev, self, op, requirement, input_, call>>

\* TryMeet retrying from the top of _prompt instead of the top of the loop
TryMeetRetriesFromEntry ==
    /\ pc = "meet"
    /\ LET r == Meet(requirement, StrV(input_))
       IN  /\ meets' = Append(meets, input_)
           /\ last' = r
           /\ IF r.ok
              THEN /\ pc' = "done"
                   /\ outcome' = [kind |-> "return", value |-> r.value, err |-> NoError]
                   /\ UNCHANGED io
              ELSE IF r.err.kind \in ValidationError
              THEN /\ pc' = "print_requirement"
                   /\ io' = Append(io, Write("error", ErrorStr(r.err), "\n"))
                   /\ UNCHANGED outcome
              ELSE /\ pc' = "error"
                   /\ outcome' = [kind |-> "raise", value |-> NoneV, err |-> r.err]
                   /\ UNCHANGED io
    /\ UNCHANGED <<prev, self, op, requirement, input_, call>>

\* TryMeet with a retry limit: the second ValidationError of a call is raised
TryMeetGivesUp ==
    /\ pc = "meet"
    /\ LET r == Meet(requirement, StrV(input_))
       IN  /\ meets' = Append(meets, input_)
           /\ last' = r
           /\ IF r.ok
              THEN /\ pc' = "done"
                   /\ outcome' = [kind |-> "return", value |-> r.value, err |-> NoError]
                   /\ UNCHANGED io
              ELSE IF r.err.kind \in ValidationError /\ Len(errors) < 1
              THEN /\ pc' = "print_hint"
                   /\ io' = Append(io, Write("error", ErrorStr(r.err), "\n"))
                   /\ UNCHANGED outcome
              ELSE /\ pc' = "error"
                   /\ outcome' = [kind |-> "raise", value |-> NoneV, err |-> r.err]
                   /\ UNCHANGED io
    /\ UNCHANGED <<prev, self, op, requirement, input_, call>>

\* TryMeet retrying without printing the ValidationError
TryMeetSilent ==
    /\ pc = "meet"
    /\ LET r == Meet(requirement, StrV(input_))
       IN  /\ meets' = Append(meets, input_)
           /\ last' = r
           /\ IF r.ok
              THEN /\ pc' = "done"
                   /\ outcome' = [kind |-> "return", value |-> r.value, err |-> NoError]
              ELSE IF r.err.kind \in ValidationError
              THEN /\ pc' = "print_hint"
                   /\ UNCHANGED outcome
              ELSE /\ pc' = "error"
                   /\ outcome' = [kind |-> "raise", value |-> NoneV, err |-> r.err]
           /\ UNCHANGED io
    /\ UNCHANGED <<prev, self, op, requirement, input_, call>>

\* try: return requirement.meet(input_) except ValidationError as e: print(e)
TryMeet ==
    /\ pc = "meet"
    /\ LET r == Meet(requirement, StrV(input_))
       IN  /\ meets' = Append(meets, input_)
           /\ last' = r
           /\ IF r.ok
              THEN /\ pc' = "done"
                   /\ outcome' = [kind |-> "return", value |-> r.value, err |-> NoError]
                   /\ UNCHANGED io
              ELSE IF r.err.kind \in ValidationError
              THEN /\ pc' = "print_hint"
                   /\ io' = Append(io, Write("error", ErrorStr(r.err), "\n"))
                   /\ UNCHANGED outcome
              ELSE /\ pc' = "error"
                   /\ outcome' = [kind |-> "raise", value |-> NoneV, err |-> r.err]
                   /\ UNCHANGED io
    /\ UNCHANGED <<prev, self, op, requirement, input_, call>>

Next ==
    \/ between
    \/ choose
    \/ menu
    \/ name
    \/ number
    \/ prompt
    \/ PrintRequirement
    \/ PrintHint
    \/ Input
    \/ TestExit
    \/ TryMeet

Spec == Init /\ [][Next]_vars

\* the statements of _prompt run one after the other: once the reader has
\* returned a line, the call goes on until it asks the reader again or ends
SpecLive ==
    /\ InitLive
    /\ [][Next]_vars
    /\ WF_vars(PrintRequirement)
    /\ WF_vars(PrintHint)
    /\ WF_vars(TestExit)
    /\ WF_vars(TryMeet)

\* one Prompt used for call after call
SpecReuse == InitReuse /\ [][Next]_vars

(***************************************************************************)
(* Direct calls of meet on a requirement, as the unit tests make them.     *)
(***************************************************************************)
\* the requirements called directly
CallRequirements ==
    {Requirement, NotEmpty, Number,
     Between(1, 5), Between(1, 3), Between(2, 2), Between(3, 1),
     Choice(<<"yes", "no">>, <<BoolV(TRUE), BoolV(FALSE)>>),
     Choice(<<"abc">>, <<IntV(7)>>),
     Choice(<<"a/b", "c">>, <<IntV(1), IntV(2)>>),
     Choice(<<>>, <<>>),
     Menu(<<StrV("a"), StrV("b"), StrV("c")>>),
     Menu(<<>>),
     Chain(<<>>),
     Chain(<<Number>>),
     Chain(<<Number, Between(1, 3)>>),
     Chain(<<Number, Between(1, 3), Menu(<<StrV("a"), StrV("b"), StrV("c")>>)>>),
     Chain(<<Number, Menu(<<StrV("a"), StrV("b"), StrV("c")>>)>>),
     Chain(<<Between(1, 3), Number>>),
     Chain(<<NotEmpty, Choice(<<"1", "2">>, <<StrV("5"), StrV("x")>>), Number, Between(2, 5)>>),
     Chain(<<Chain(<<NotEmpty, Number>>), Chain(<<>>), Between(0, 2)>>),
     Chain(<<Between(1, 3), Number, Choice(<<"yes", "no">>, <<BoolV(TRUE), BoolV(FALSE)>>),
             Between(2, 2)>>),
     Chain(<<Menu(<<>>), Menu(<<StrV("a"), StrV("b"), StrV("c")>>), Number,
             Menu(<<StrV("x")>>)>>)}

\* the values handed to meet
CallValues ==
    {StrV(Strip(line)) : line \in Lines} \cup {IntV(n) : n \in (0 - 1)..6}

\* the names defined at the top level of prompt/__init__.py
ModuleNames ==
    {"__version__", "ValidationError", "Empty", "NotANumber", "NotInRange",
     "NotAnOption", "Requirement", "Chain", "NotEmpty", "Number", "Between",
     "Choice", "Menu", "Exit", "Prompt"}

\* the names the other files of the repository take from the package
ImportedNames == {"Date", "NotADate", "__version__"}

\* there is a requirement object to call
Constructed == call.method \in {"new", "meet", "hint", "str"}

\* construction of a requirement: __init__ stores its arguments
New ==
    /\ call.method = "none"
    /\ \E r \in CallRequirements : call' = [NoCall EXCEPT !.method = "new", !.self = r]
    /\ UNCHANGED <<prev, self, pc, op, requirement, input_, io, meets, last, outcome>>

\* MeetCall on an object whose meet keeps the value it returned for its next call
MeetCallRemembers ==
    /\ Constructed
    /\ call.n < MaxCalls
    /\ \E v \in CallValues :
          call' = [call EXCEPT !.method = "meet", !.value = v, !.n = call.n + 1,
                               !.result = Meet(call.self,
                                               IF call.n > 0 /\ call.result.ok
                                               THEN call.result.value ELSE v)]
    /\ UNCHANGED <<prev, self, pc, op, requirement, input_, io, meets, last, outcome>>

\* requirement.meet(value)
MeetCall ==
    /\ Constructed
    /\ call.n < MaxCalls
    /\ \E v \in CallValues :
          call' = [call EXCEPT !.method = "meet", !.value = v, !.n = call.n + 1,
                               !.result = Meet(call.self, v)]
    /\ UNCHANGED <<prev, self, pc, op, requirement, input_, io, meets, last, outcome>>

\* requirement.hint()
HintCall ==
    /\ Constructed
    /\ call' = [call EXCEPT !.method = "hint", !.text = Hint(call.self)]
    /\ UNCHANGED <<prev, self, pc, op, requirement, input_, io, meets, last, outcome>>

\* str(requirement)
StrCall ==
    /\ Constructed
    /\ call' = [call EXCEPT !.method = "str", !.text = Str(call.self)]
    /\ UNCHANGED <<prev, self, pc, op, requirement, input_, io, meets, last, outcome>>

\* from prompt import <name>, prompt.<name>
ImportCall ==
    /\ call.method = "none"
    /\ \E nm \in ImportedNames :
          call' = [NoCall EXCEPT !.method = "import", !.value = StrV(nm),
                                 !.result = IF nm \in ModuleNames
                                            THEN Returned(StrV(nm), <<>>)
                                            ELSE Raised(ImportError, <<>>)]
    /\ UNCHANGED <<prev, self, pc, op, requirement, input_, io, meets, last, outcome>>

NextMeet ==
    \/ New
    \/ MeetCall
    \/ HintCall
    \/ StrCall
    \/ ImportCall

SpecMeet == Init /\ [][NextMeet]_vars

(***************************************************************************)
(* Properties of the prompt loop.                                          *)
(***************************************************************************)
PublicOperations == {"between", "choose", "menu", "name", "number"}

\* x contains 'exit' or 'quit' in any letter case
HasExitKeyword(x) ==
    \E k \in 1..(Len(x) - 3) : Lower(SubSeq(x, k, k + 3)) \in {"exit", "quit"}

\* the k-th line read, trimmed
Trimmed(k) == Strip(reads[k].line)

\* the k-th line read fails the requirement with a ValidationError
Rejected(k) ==
    /\ ~Meet(requirement, StrV(Trimmed(k))).ok
    /\ Meet(requirement, StrV(Trimmed(k))).err.kind
          \in {"Empty", "NotANumber", "NotInRange", "NotAnOption"}

\* C1: a trimmed line that contains 'exit' or 'quit' in any letter case makes
\* the loop raise Exit before requirement.meet is called on it: meet is never
\* called on such a line, whatever the requirement is.
C1_ExitBeforeMeet ==
    /\ \A k \in 1..Len(meets) : ~HasExitKeyword(meets[k])
    /\ pc = "meet" => ~HasExitKeyword(input_)
    /\ (Len(reads) > 0 /\ HasExitKeyword(Trimmed(Len(reads))) /\ pc # "test_exit")
          => /\ pc = "exit"
             /\ outcome.kind = "Exit"
             /\ Len(meets) = Len(reads) - 1

C1_Witness ==
    /\ pc = "exit"
    /\ op = "menu"
    /\ input_ = "ExIt now"
    /\ Len(meets) = 1

\* C2: Exit is not swallowed by the retry loop: a line with an exit keyword
\* is the last line the call reads, the call ends with Exit, and no
\* validation message is written for that line; when the first line read is
\* 'quit' the call ends with Exit and no validation message at all.
C2_ExitPropagates ==
    /\ \A k \in 1..Len(reads) :
          HasExitKeyword(Trimmed(k))
             => /\ k = Len(reads)
                /\ pc \in {"test_exit", "exit"}
                /\ Len(errors) = k - 1
                /\ io[Len(io)] = reads[k]
    /\ pc = "exit"
          => /\ outcome.kind = "Exit"
             /\ HasExitKeyword(Trimmed(Len(reads)))
    /\ (Len(reads) > 0 /\ reads[1].line = "quit" /\ pc # "test_exit")
          => /\ pc = "exit"
             /\ outcome.kind = "Exit"
             /\ Len(reads) = 1
             /\ Len(errors) = 0

C2_Witness ==
    /\ pc = "exit"
    /\ outcome.kind = "Exit"
    /\ Len(reads) = 1
    /\ reads[1].line = "quit"
    /\ op = "between"

\* C3: a call of between, choose, menu, name or number leaves the loop only
\* by returning the value meet returned or by raising Exit: no ValidationError
\* and no other exception escapes.
C3_OnlyDoneOrCancelled ==
    op \in PublicOperations
       => /\ pc # "error"
          /\ outcome.kind \in {"none", "return", "Exit"}
          /\ outcome.kind = "return" <=> pc = "done"
          /\ outcome.kind = "Exit" <=> pc = "exit"
          /\ pc = "done" => last.ok /\ outcome.value = last.value
          /\ (Len(meets) = Len(reads) /\ Len(meets) > 0 /\ ~last.ok)
                => pc \in {"print_hint", "input"}

C3_Witness ==
    /\ op = "menu"
    /\ pc = "done"
    /\ Len(errors) = 2
    /\ errors[1].text = "Please provide a value between 1 and 3"

RECURSIVE RejectionMessages(_)
\* the display messages of the rejected ones among the first n arguments of meet
RejectionMessages(n) ==
    IF n = 0 THEN <<>>
    ELSE LET r == Meet(requirement, StrV(meets[n]))
         IN  IF ~r.ok /\ r.err.kind \in {"Empty", "NotANumber", "NotInRange", "NotAnOption"}
             THEN Append(RejectionMessages(n - 1), ErrorStr(r.err))
             ELSE RejectionMessages(n - 1)

\* C5: each line without an exit keyword that fails the requirement causes
\* exactly one write of the error's display message and then another read;
\* the validation messages written are those of the rejected lines, in
\* order, however many there have been.
C5_OneMessagePerRejection ==
    /\ Len(errors) = Len(RejectionMessages(Len(meets)))
    /\ \A k \in 1..Len(errors) :
          /\ errors[k].text = RejectionMessages(Len(meets))[k]
          /\ errors[k].end = "\n"
    /\ \A k \in 1..Len(reads) :
          (k < Len(reads) \/ pc \in {"print_hint", "input"})
             => Rejected(k) /\ ~HasExitKeyword(Trimmed(k))
    /\ \A k \in 1..Len(reads) :
          (Rejected(k) /\ ~HasExitKeyword(Trimmed(k)))
             => \/ k = Len(reads) /\ pc \in {"test_exit", "meet", "print_hint", "input"}
                \/ k < Len(reads) /\ Len(errors) >= k
    /\ (pc \in {"print_hint", "input"} /\ Len(reads) > 0)
          => /\ Len(errors) = Len(reads)
             /\ io[Len(io)].src \in {"error", "hint"}

C5_Witness ==
    /\ pc = "input"
    /\ Len(reads) = 2
    /\ Len(errors) = 2
    /\ errors[1].text = "Empty"
    /\ errors[2].text = "Empty"

(***************************************************************************)
(* Properties of the requirements.                                         *)
(***************************************************************************)
RECURSIVE Compose(_, _, _)
\* rn.meet(...r2.meet(r1.meet(raw))) for the first n requirements of rs: the
\* innermost call is made first, and a failure of it is the failure of the whole
Compose(rs, n, raw) ==
    IF n = 0 THEN [ok |-> TRUE, value |-> raw, err |-> NoError, ran |-> <<>>]
    ELSE LET inner == Compose(rs, n - 1, raw)
         IN  IF ~inner.ok THEN inner
             ELSE LET r == Meet(rs[n], inner.value)
                  IN  [ok |-> r.ok, value |-> r.value, err |-> r.err,
                       ran |-> inner.ran \o r.ran]

abc == <<StrV("a"), StrV("b"), StrV("c")>>

\* C6: Chain(r1, ..., rn).meet(raw) equals rn.meet(...r2.meet(r1.meet(raw))):
\* the requirements run in construction order, each on the result of the one
\* before, the first failure is the chain's failure and nothing after it
\* runs; an empty chain returns raw. Chain(Number, Between(1,3), Menu([a,b,c]))
\* returns 'b' on '2' and fails with NotInRange(1,3) on '5' without Menu.meet.
C6_ChainComposes ==
    (call.method = "meet" /\ call.self.cls = "Chain")
       => /\ call.result
                = Compose(call.self.requirements, Len(call.self.requirements), call.value)
          /\ Len(call.self.requirements) = 0
                => call.result.ok /\ call.result.value = call.value
          /\ (\A k \in 1..Len(call.self.requirements) :
                   call.self.requirements[k].cls # "Chain")
                => /\ Len(call.result.ran) <= Len(call.self.requirements)
                   /\ \A k \in 1..Len(call.result.ran) :
                         call.result.ran[k] = call.self.requirements[k].cls
                   /\ call.result.ok
                         => Len(call.result.ran) = Len(call.self.requirements)
                   /\ ~call.result.ok
                         => ~Meet(call.self.requirements[Len(call.result.ran)],
                                  Compose(call.self.requirements,
                                          Len(call.result.ran) - 1, call.value).value).ok
          /\ (call.self = Chain(<<Number, Between(1, 3), Menu(abc)>>)
                /\ call.value = StrV("2"))
                => /\ call.result.ok
                   /\ call.result.value = StrV("b")
                   /\ call.result.ran = <<"Number", "Between", "Menu">>
          /\ (call.self = Chain(<<Number, Between(1, 3), Menu(abc)>>)
                /\ call.value = StrV("5"))
                => /\ ~call.result.ok
                   /\ call.result.err.kind = "NotInRange"
                   /\ call.result.err.min = 1 /\ call.result.err.max = 3
                   /\ call.result.ran = <<"Number", "Between">>

C6_Witness ==
    /\ call.method = "meet"
    /\ call.self = Chain(<<Number, Between(1, 3), Menu(abc)>>)
    /\ call.value = StrV("5")
    /\ call.result.err.kind = "NotInRange"

\* C7: Between(min,max).meet(v) returns v unchanged exactly when
\* min <= v <= max, both ends included, and otherwise fails with NotInRange
\* carrying min and max; with min > max it rejects every value.
C7_BetweenClosedInterval ==
    (call.method = "meet" /\ call.self.cls = "Between" /\ call.value.t = "int")
       => /\ call.result.ok
                <=> (call.self.min <= call.value.i /\ call.value.i <= call.self.max)
          /\ call.result.ok => call.result.value = call.value
          /\ ~call.result.ok
                => /\ call.result.err.kind = "NotInRange"
                   /\ call.result.err.min = call.self.min
                   /\ call.result.err.max = call.self.max
          /\ call.self.min > call.self.max => ~call.result.ok
          /\ call.value.i \in {call.self.min, call.self.max}
                => call.result.ok <=> call.self.min <= call.self.max
          /\ (call.self.min = 1 /\ call.self.max = 5)
                => /\ call.value.i \in {1, 3, 5} => call.result.value = call.value
                   /\ call.value.i = 0 => call.result.err.kind = "NotInRange"

C7_Witness ==
    /\ call.method = "meet"
    /\ call.self.cls = "Between"
    /\ call.self.min = 1 /\ call.self.max = 5
    /\ call.value = IntV(5)
    /\ call.result.ok

\* the labels of a Choice joined by '/', built from the left
SlashJoined(keys) ==
    LET F[k \in 0..Len(keys)] ==
            IF k = 0 THEN ""
            ELSE IF k = 1 THEN keys[1]
            ELSE F[k - 1] \o "/" \o keys[k]
    IN  F[Len(keys)]

IsKey(self_, value) ==
    value.t = "str" /\ \E k \in 1..Len(self_.keys) : self_.keys[k] = value.s

\* C8 as stated: Choice(options).meet(label) returns options[label] when
\* label is a key, and otherwise fails with NotAnOption whose payload is the
\* list of the available labels.
C8_PayloadIsListOfLabels ==
    (call.method = "meet" /\ call.self.cls = "Choice")
       => /\ IsKey(call.self, call.value)
                => /\ call.result.ok
                   /\ \E k \in 1..Len(call.self.keys) :
                         /\ call.self.keys[k] = call.value.s
                         /\ call.result.value = call.self.vals[k]
          /\ ~IsKey(call.self, call.value)
                => /\ ~call.result.ok
                   /\ call.result.err.kind = "NotAnOption"
                   /\ call.result.err.options.t = "list"
                   /\ Len(call.result.err.options.l) = Len(call.self.keys)
                   /\ \A k \in 1..Len(call.self.keys) :
                         call.result.err.options.l[k] = StrV(call.self.keys[k])

\* C8: Choice(options).meet(label) returns options[label] when label is a
\* key, and otherwise fails with NotAnOption whose payload is the string of
\* the available labels joined by '/' in the order of the mapping (the hint
\* of the Choice): Choice({yes: True, no: False}).meet('maybe') fails with
\* NotAnOption('yes/no').
C8_PayloadIsJoinedLabels ==
    (call.method = "meet" /\ call.self.cls = "Choice")
       => /\ IsKey(call.self, call.value)
                => /\ call.result.ok
                   /\ \E k \in 1..Len(call.self.keys) :
                         /\ call.self.keys[k] = call.value.s
                         /\ call.result.value = call.self.vals[k]
          /\ ~IsKey(call.self, call.value)
                => /\ ~call.result.ok
                   /\ call.result.err.kind = "NotAnOption"
                   /\ call.result.err.options.t = "str"
                   /\ call.result.err.options.s = SlashJoined(call.self.keys)
          /\ (call.self.keys = <<"yes", "no">> /\ call.value = StrV("maybe"))
                => /\ call.result.err.options.s = "yes/no"
                   /\ ErrorStr(call.result.err) = "Please select one of yes/no"
          /\ (call.self.keys = <<"yes", "no">> /\ call.value = StrV("yes"))
                => call.result.value = BoolV(TRUE)

C8_Witness ==
    /\ call.method = "meet"
    /\ call.self.keys = <<"yes", "no">>
    /\ call.value = StrV("maybe")
    /\ call.result.err.kind = "NotAnOption"

\* C9: Menu(options).meet(i) returns options[i-1] for 1 <= i <= len(options)
\* and otherwise fails with an AssertionError, which is not a
\* ValidationError: a prompt loop whose chain lets such an index reach Menu
\* writes no message for the line and does not retry, the error ends the call.
C9_MenuAssertionAborts ==
    (/\ op = "_prompt"
     /\ requirement.cls = "Chain"
     /\ Len(requirement.requirements) = 2
     /\ requirement.requirements[1].cls = "Number"
     /\ requirement.requirements[2].cls = "Menu")
       => \A k \in 1..Len(meets) :
             ParseInt(meets[k]).ok
                => /\ k = Len(meets)
                   /\ k = Len(reads)
                   /\ io[Len(io)] = reads[k]
                   /\ Len(errors) = k - 1
                   /\ (/\ 1 <= ParseInt(meets[k]).val
                       /\ ParseInt(meets[k]).val <= Len(requirement.requirements[2].options))
                         => /\ pc = "done"
                            /\ outcome.kind = "return"
                            /\ outcome.value
                                  = requirement.requirements[2].options[ParseInt(meets[k]).val]
                   /\ ~(/\ 1 <= ParseInt(meets[k]).val
                        /\ ParseInt(meets[k]).val <= Len(requirement.requirements[2].options))
                         => /\ pc = "error"
                            /\ outcome.kind = "raise"
                            /\ outcome.err.kind = "AssertionError"
                            /\ last.ran = <<"Number", "Menu">>

C9_Witness ==
    /\ op = "_prompt"
    /\ requirement = Chain(<<Number, Menu(abc)>>)
    /\ Len(reads) = 2
    /\ input_ = "5"
    /\ pc = "error"
    /\ outcome.err.kind = "AssertionError"
    /\ Len(errors) = 1

\* C10: within one call the description of the requirement is written
\* exactly once if it is non-empty and never if it is empty; the write is the
\* first thing the call does, before any read, and no retry repeats it.
C10_DescriptionOnce ==
    /\ pc = "print_requirement" => io = <<>>
    /\ pc \notin {"idle", "print_requirement"}
          => /\ Str(requirement) # ""
                   => /\ Len(io) >= 1
                      /\ io[1] = [src |-> "requirement", text |-> Str(requirement),
                                  end |-> "\n", line |-> ""]
                      /\ \A k \in 2..Len(io) : io[k].src # "requirement"
             /\ Str(requirement) = ""
                   => \A k \in 1..Len(io) : io[k].src # "requirement"
    /\ (op = "menu" /\ requirement.requirements[3].options = abc /\ pc # "print_requirement")
          => /\ io[1].text = "1. a\n2. b\n3. c"
             /\ \A k \in 2..Len(io) : io[k].src # "requirement"
    /\ op \in {"between", "choose", "name", "number"}
          => \A k \in 1..Len(io) : io[k].src # "requirement"

C10_Witness ==
    /\ op = "menu"
    /\ pc = "input"
    /\ Len(reads) = 2
    /\ Len(errors) = 2
    /\ io[1].src = "requirement"
    /\ io[1].text = "1. a\n2. b\n3. c"

\* C11: every read of a line, the first and each retry alike, is immediately
\* preceded by one write of '(hint)' that ends with a space instead of a line
\* break when the hint of the requirement is non-empty, and by no hint write
\* when it is empty; nothing is written between the hint and the read.
C11_HintBeforeEveryRead ==
    /\ \A k \in 1..Len(io) :
          io[k].src = "input"
             => /\ io[k].text = "> "
                /\ Hint(requirement) # ""
                      => /\ k > 1
                         /\ io[k - 1].src = "hint"
                         /\ io[k - 1].text = "(" \o Hint(requirement) \o ")"
                         /\ io[k - 1].end = " "
                         /\ k > 2 => io[k - 2].src # "hint"
                /\ Hint(requirement) = ""
                      => \A j \in 1..Len(io) : io[j].src # "hint"
    /\ \A k \in 1..Len(io) :
          io[k].src = "hint"
             => \/ k < Len(io) /\ io[k + 1].src = "input"
                \/ k = Len(io) /\ pc = "input"
    /\ (op = "between" /\ requirement.requirements[2] = Between(1, 3))
          => \A k \in 1..Len(io) : io[k].src = "hint" => io[k].text = "(1 - 3)"
    /\ (op = "between" /\ requirement.requirements[2] = Between(3, 3))
          => \A k \in 1..Len(io) : io[k].src = "hint" => io[k].text = "(3)"
    /\ (op = "choose" /\ requirement.keys = <<"yes", "no">>)
          => \A k \in 1..Len(io) : io[k].src = "hint" => io[k].text = "(yes/no)"
    /\ op \in {"name", "number"} => \A k \in 1..Len(io) : io[k].src # "hint"

C11_Witness ==
    /\ op = "between"
    /\ requirement.requirements[2] = Between(1, 3)
    /\ Len(reads) = 2
    /\ Len(io) = 5
    /\ io[1].src = "hint" /\ io[2].src = "input" /\ io[3].src = "error"
    /\ io[4].src = "hint" /\ io[4].text = "(1 - 3)" /\ io[5].src = "input"

\* the lines 'k. item' for the items 1..n, joined by line breaks from the left
NumberedItems(items) ==
    LET F[k \in 0..Len(items)] ==
            IF k = 0 THEN ""
            ELSE (IF k = 1 THEN "" ELSE F[k - 1] \o "\n")
                    \o IntToStr(k) \o ". " \o Format(items[k])
    IN  F[Len(items)]

\* C12: menu(items) with n >= 1 items writes the items numbered 1..n in their
\* order, one 'index. item' per line; a line that parses to an integer k in
\* 1..n returns items[k-1], the item shown with number k, and an integer
\* outside 1..n is rejected with NotInRange(1,n) and the line is asked again.
C12_MenuReturnsNumberedItem ==
    (op = "menu" /\ Len(requirement.requirements[3].options) >= 1)
       => LET items == requirement.requirements[3].options
              n == Len(items)
          IN  /\ pc # "print_requirement"
                    => /\ io[1].src = "requirement"
                       /\ io[1].text = NumberedItems(items)
                       /\ io[1].end = "\n"
              /\ \A k \in 1..Len(meets) :
                    ParseInt(meets[k]).ok
                       => LET i == ParseInt(meets[k]).val
                          IN  /\ (1 <= i /\ i <= n)
                                    => /\ k = Len(meets)
                                       /\ pc = "done"
                                       /\ outcome.kind = "return"
                                       /\ outcome.value = items[i]
                              /\ ~(1 <= i /\ i <= n)
                                    => /\ Len(errors) >= k
                                       /\ errors[k].text
                                             = "Please provide a value between 1 and "
                                                  \o IntToStr(n)
                                       /\ Len(reads) > k \/ pc \in {"print_hint", "input"}
              /\ items = abc
                    => /\ pc # "print_requirement" => io[1].text = "1. a\n2. b\n3. c"
                       /\ (pc = "done" /\ input_ = "2") => outcome.value = StrV("b")
              /\ items = <<IntV(5), IntV(7)>>
                    => /\ pc # "print_requirement" => io[1].text = "1. 5\n2. 7"
                       /\ (pc = "done" /\ input_ = "2") => outcome.value = IntV(7)
                       /\ (Len(meets) > 0 /\ meets[1] = "5")
                             => errors[1].text = "Please provide a value between 1 and 2"

C12_Witness ==
    /\ op = "menu"
    /\ requirement.requirements[3].options = <<IntV(5), IntV(7)>>
    /\ Len(reads) = 2
    /\ meets = <<"5", "2">>
    /\ pc = "done"
    /\ outcome.value = IntV(7)

JoinNonEmpty(sep, xs) ==
    LET F[k \in 0..Len(xs)] ==
            IF k = 0 THEN ""
            ELSE IF xs[k] = "" THEN F[k - 1]
            ELSE IF F[k - 1] = "" THEN xs[k]
            ELSE F[k - 1] \o sep \o xs[k]
    IN  F[Len(xs)]

\* C15: Chain.hint() is the non-empty hints of its requirements, in order,
\* joined by ', ', and str(chain) is their non-empty descriptions, in order,
\* joined by a line break; an empty hint or description adds nothing, no
\* separator either, and a chain with none gives the empty string.
C15_ChainJoinsNonEmpty ==
    (call.self.cls = "Chain" /\ call.method \in {"hint", "str"})
       => LET rs == call.self.requirements
          IN  /\ call.method = "hint"
                    => call.text = JoinNonEmpty(", ", [k \in 1..Len(rs) |-> Hint(rs[k])])
              /\ call.method = "str"
                    => call.text = JoinNonEmpty("\n", [k \in 1..Len(rs) |-> Str(rs[k])])
              /\ (\A k \in 1..Len(rs) : rs[k].cls \in {"Number", "NotEmpty", "Requirement"})
                    => call.text = ""
              /\ (rs = <<Between(1, 3), Number,
                         Choice(<<"yes", "no">>, <<BoolV(TRUE), BoolV(FALSE)>>),
                         Between(2, 2)>>)
                    => /\ call.method = "hint" => call.text = "1 - 3, yes/no, 2"
                       /\ call.method = "str" => call.text = ""
              /\ (rs = <<Menu(<<>>), Menu(abc), Number, Menu(<<StrV("x")>>)>>)
                    => /\ call.method = "hint" => call.text = ""
                       /\ call.method = "str" => call.text = "1. a\n2. b\n3. c\n1. x"

C15_Witness ==
    /\ call.method = "hint"
    /\ call.self.cls = "Chain"
    /\ Len(call.self.requirements) = 4
    /\ call.text = "1 - 3, yes/no, 2"

\* C16: the prompt package provides a Date requirement and a NotADate error:
\* taking these names from the package succeeds, as the tests of the date
\* requirement need before they can call Date().meet('13.03.2019').
C16_DateProvided ==
    (call.method = "import" /\ call.value.s \in {"Date", "NotADate"})
       => call.result.ok

\* what the call writes before its first read: the description, if any
DescriptionWrites ==
    IF Str(requirement) = "" THEN <<>>
    ELSE <<[src |-> "requirement", text |-> Str(requirement), end |-> "\n", line |-> ""]>>

\* what the call writes before each read: the hint, if any
HintWrites ==
    IF Hint(requirement) = "" THEN <<>>
    ELSE <<[src |-> "hint", text |-> "(" \o Hint(requirement) \o ")", end |-> " ",
            line |-> ""]>>

\* the read of the k-th line with the default prompt character
ReadOf(k) == <<[src |-> "input", text |-> "> ", end |-> "", line |-> reads[k].line]>>

\* the transcript of a call that has read k lines and rejected each of them
RejectedSoFar(k) ==
    LET F[j \in 0..k] ==
            IF j = 0 THEN DescriptionWrites
            ELSE F[j - 1] \o HintWrites \o ReadOf(j)
                    \o <<[src |-> "error",
                          text |-> ErrorStr(Meet(requirement, StrV(Trimmed(j))).err),
                          end |-> "\n", line |-> ""]>>
    IN  F[k]

\* the transcript of the call given its requirement, the lines it has read
\* and where it stands
ExpectedIo ==
    CASE pc \in {"idle", "print_requirement"} -> <<>>
      [] pc = "print_hint" -> RejectedSoFar(Len(reads))
      [] pc = "input" -> RejectedSoFar(Len(reads)) \o HintWrites
      [] OTHER -> RejectedSoFar(Len(reads) - 1) \o HintWrites \o ReadOf(Len(reads))

\* the end of the call given its requirement and the last line it has read
ExpectedOutcome ==
    IF pc \notin {"done", "exit", "error"} THEN [kind |-> "none", value |-> NoneV]
    ELSE IF HasExitKeyword(Trimmed(Len(reads))) THEN [kind |-> "Exit", value |-> NoneV]
    ELSE IF Meet(requirement, StrV(Trimmed(Len(reads)))).ok
         THEN [kind |-> "return",
               value |-> Meet(requirement, StrV(Trimmed(Len(reads)))).value]
    ELSE [kind |-> "raise", value |-> NoneV]

\* C14: a Prompt holds no state of an interaction: no call changes its
\* prompt character or its exit keywords, and what a call writes, reads with
\* and returns is determined by its requirement and the lines it has read,
\* however the call before it on the same Prompt ended.
C14_PromptKeepsNoCallState ==
    /\ self.character = "> "
    /\ self.EXIT = <<"exit", "quit">>
    /\ prev \in {"none", "return", "Exit", "raise"}
    /\ io = ExpectedIo
    /\ outcome.kind = ExpectedOutcome.kind
    /\ outcome.value = ExpectedOutcome.value

C14_Witness ==
    /\ prev = "Exit"
    /\ op = "choose"
    /\ pc = "done"
    /\ Len(errors) = 1
    /\ outcome.value = BoolV(TRUE)

\* the call has ended
Ended == pc \in {"done", "exit", "error"}

\* the k-th line read ends the call: it holds an exit keyword or meets the requirement
Ending(k) ==
    \/ HasExitKeyword(Trimmed(k))
    \/ Meet(requirement, StrV(Trimmed(k))).ok

\* C17: a call ends, by return or by Exit, if and only if the reader yields
\* a line that holds an exit keyword or meets the requirement: once such a
\* line is read the call ends, a call that has ended that way has read one
\* as its last line, and while every line read is rejected the call is not
\* ended but asks for the next line, whatever the number of lines before.
C17_EndsIffEndingLine ==
    /\ [](pc \in {"done", "exit"}
             => /\ Len(reads) > 0
                /\ Ending(Len(reads))
                /\ \A k \in 1..(Len(reads) - 1) : ~Ending(k))
    /\ []((\A k \in 1..Len(reads) : Rejected(k) /\ ~HasExitKeyword(Trimmed(k)))
             => ~Ended)
    /\ [](op \in PublicOperations
             => (Ended <=> Len(meets) + 1 >= Len(reads) /\ Len(reads) > 0
                              /\ pc \notin {"test_exit", "meet"}
                              /\ Ending(Len(reads))))
    /\ (pc = "test_exit" /\ Ending(Len(reads))) ~> (pc \in {"done", "exit"})
    /\ (pc = "test_exit" /\ Rejected(Len(reads)) /\ ~HasExitKeyword(Trimmed(Len(reads))))
          ~> (pc = "input" /\ Len(errors) = Len(reads))
    /\ (pc = "print_requirement") ~> (pc = "input" /\ Len(reads) = 0)

C17_Witness ==
    /\ prev = "live"
    /\ op = "number"
    /\ pc = "done"
    /\ Len(reads) = 2
    /\ Len(errors) = 1
    /\ Ending(2) /\ ~Ending(1)

\* the result of the requirements that come before Menu in the chain of menu:
\* when it is a return, its value is what Menu.meet is called with
BeforeMenu(x) ==
    Meet(Chain(<<requirement.requirements[1], requirement.requirements[2]>>), StrV(x))

\* C18: in menu(*options), whatever the options (none included) and the
\* lines read, Menu.meet is called only with an integer in 1..len(options):
\* its assertion never fails and no call ends by an error; with no options
\* every line without an exit keyword is rejected, with NotANumber or with
\* NotInRange(1, 0), Menu.meet is never called, nothing is returned and the
\* call can end by Exit only.
C18_MenuAssertionNeverFails ==
    op = "menu"
       => LET items == requirement.requirements[3].options
              n == Len(items)
          IN  /\ pc # "error"
              /\ outcome.kind \in {"none", "return", "Exit"}
              /\ last.err.kind # "AssertionError"
              /\ \A k \in 1..Len(meets) :
                    LET fed == BeforeMenu(meets[k])
                        r == Meet(requirement, StrV(meets[k]))
                    IN  /\ r.err.kind # "AssertionError"
                        /\ ("Menu" \in {r.ran[j] : j \in 1..Len(r.ran)}) <=> fed.ok
                        /\ fed.ok
                              => /\ fed.value.t = "int"
                                 /\ fed.value.i \in 1..n
                                 /\ MenuMeet(requirement.requirements[3], fed.value).ok
                                 /\ r.ok
              /\ n = 0
                    => /\ pc # "done"
                       /\ outcome.kind \in {"none", "Exit"}
                       /\ Len(errors) = Len(meets)
                       /\ \A k \in 1..Len(reads) :
                             ~HasExitKeyword(Trimmed(k))
                                => LET r == Meet(requirement, StrV(Trimmed(k)))
                                   IN  /\ ~r.ok
                                       /\ "Menu" \notin {r.ran[j] : j \in 1..Len(r.ran)}
                                       /\ \/ r.err = NotANumber(Trimmed(k))
                                          \/ r.err = NotInRange(1, 0)
                                       /\ ParseInt(Trimmed(k)).ok <=> r.err = NotInRange(1, 0)
                       /\ \A k \in 1..Len(errors) :
                             errors[k].text = ErrorStr(Meet(requirement, StrV(meets[k])).err)

\* a menu of no options has rejected '1' and 'abc' and ends by Exit
C18_Witness ==
    /\ op = "menu"
    /\ requirement.requirements[3].options = <<>>
    /\ Len(reads) = 3
    /\ Trimmed(1) = "1" /\ Trimmed(2) = "abc"
    /\ Len(errors) = 2
    /\ errors[1].text = "Please provide a value between 1 and 0"
    /\ pc = "exit"

\* a line of no characters or of whitespace only
IsBlank(line) == \A j \in 1..Len(line) : Char(line, j) \in Whitespace

\* C19: name() returns only a string that is not empty, neither starts nor
\* ends with whitespace and holds neither 'exit' nor 'quit' in any letter
\* case; an empty or whitespace-only line is rejected with the message Empty
\* and the call asks again; a line that holds an exit keyword, 'Marquita'
\* for one, ends the call by Exit and is not returned.
C19_NameReturnsTrimmedNonEmpty ==
    op = "name"
       => /\ pc = "done"
                => /\ outcome.kind = "return"
                   /\ outcome.value.t = "str"
                   /\ outcome.value.s # ""
                   /\ Char(outcome.value.s, 1) \notin Whitespace
                   /\ Char(outcome.value.s, Len(outcome.value.s)) \notin Whitespace
                   /\ ~HasExitKeyword(outcome.value.s)
                   /\ ~IsBlank(reads[Len(reads)].line)
                   /\ outcome.value.s = Strip(reads[Len(reads)].line)
          /\ pc # "error"
          /\ Len(errors) = Cardinality({k \in 1..Len(meets) : IsBlank(reads[k].line)})
          /\ \A k \in 1..Len(errors) : errors[k].text = "Empty"
          /\ \A k \in 1..Len(meets) :
                IsBlank(reads[k].line)
                   => /\ Len(errors) >= k
                      /\ Len(reads) > k \/ pc \in {"print_hint", "input"}
          /\ \A k \in 1..Len(reads) :
                HasExitKeyword(reads[k].line)
                   => /\ k = Len(reads)
                      /\ Len(meets) = k - 1
                      /\ pc \in {"test_exit", "exit"}
                      /\ outcome.kind \in {"none", "Exit"}

\* name() has rejected a whitespace-only line and is cancelled by 'Marquita'
C19_Witness ==
    /\ op = "name"
    /\ Len(reads) = 2
    /\ reads[1].line = "  "
    /\ reads[2].line = "Marquita"
    /\ Len(errors) = 1
    /\ errors[1].text = "Empty"
    /\ pc = "exit"
    /\ outcome.kind = "Exit"

====
